---- MODULE Spec2Model ----
(***************************************************************************)
(* State-machine model of the AI Clinical Pharmacist single-page app:      *)
(* the React component App (src/App.tsx) and the request assembly of       *)
(* src/services/geminiService.ts.  Every event handler is one atomic       *)
(* action on the committed React state; every await is a step boundary.    *)
(*                                                                         *)
(* Representation: a JavaScript string is a sequence of tokens, so null    *)
(* and '' (both falsy) are the empty sequence; a selected File is a file   *)
(* name, "none" stands for null; a parsed JSON value is a record with a    *)
(* tag field.                                                              *)
(***************************************************************************)
EXTENDS Integers, Sequences, FiniteSets, TLC

\* ------------------------------------------------------------------ bounds
MaxTextLen == 1
MaxReaders == 2
MaxActivations == 2
MaxInflight == 2
MaxItems == 2
MaxDictationLen == 3

\* --------------------------------------------------------- small universes
Files == {"f1", "f2"}
NoFile == "none"
Chars == {" ", "x"}
Modes == {"upload", "text", "voice"}
Tabs == {"errors", "drugs", "labs"}
ErrorCodes == {"not-allowed"}

RECURSIVE SeqsUpTo(_, _)
SeqsUpTo(S, n) ==
    IF n = 0 THEN {<<>>}
    ELSE LET shorter == SeqsUpTo(S, n - 1)
         IN  shorter \cup {Append(s, x) : s \in {t \in shorter : Len(t) = n - 1}, x \in S}

Texts == SeqsUpTo(Chars, MaxTextLen)

\* ------------------------------------------------------------ String.trim
\* a forgotten .trim()
NoTrim(s) == s

RECURSIVE TrimLeft(_)
TrimLeft(s) == IF s # <<>> /\ Head(s) = " " THEN TrimLeft(Tail(s)) ELSE s

RECURSIVE TrimRight(_)
TrimRight(s) ==
    IF s # <<>> /\ s[Len(s)] = " " THEN TrimRight(SubSeq(s, 1, Len(s) - 1)) ELSE s

Trim(s) == TrimRight(TrimLeft(s))

\* ------------------------------------------------------------ String.split
RECURSIVE SplitOn(_, _)
SplitOn(s, sep) ==
    IF \A i \in 1..Len(s) : s[i] # sep THEN <<s>>
    ELSE LET k == CHOOSE i \in 1..Len(s) : s[i] = sep /\ \A j \in 1..(i - 1) : s[j] # sep
         IN  <<SubSeq(s, 1, k - 1)>> \o SplitOn(SubSeq(s, k + 1, Len(s)), sep)

\* ------------------------------------------------ files and FileReader
FileType(f) == IF f = "f1" THEN <<"image/png">> ELSE <<"image/jpeg">>
FileBase64(f) == IF f = "f1" THEN <<"iVBORw0KGgo=">> ELSE <<"/9j/4AAQ">>

\* FileReader.readAsDataURL: "data:<type>;base64,<payload>"
DataURL(f) == <<"data", ":">> \o FileType(f) \o <<";", "base64", ",">> \o FileBase64(f)
NoUrl == <<>>

\* fileToBase64 that keeps the part before the comma
fileToBase64Header(f) ==
    LET result == DataURL(f)
        mimeType == SplitOn(SplitOn(result, ";")[1], ":")[2]
        base64Data == SplitOn(result, ",")[1]
    IN  [mimeType |-> mimeType, data |-> base64Data]

\* fileToBase64's onload callback
fileToBase64(f) ==
    LET result == DataURL(f)
        mimeType == SplitOn(SplitOn(result, ";")[1], ":")[2]
        base64Data == SplitOn(result, ",")[2]
    IN  [mimeType |-> mimeType, data |-> base64Data]

\* ------------------------------------------------------- request assembly
basePrompt == "basePrompt"

analyzeHealthDocument(base64ImageData, mimeType) ==
    LET prompt == <<basePrompt, "The medical information is in the attached image.">>
        imagePart == [inlineData |-> [data |-> base64ImageData, mimeType |-> mimeType]]
        textPart == [text |-> prompt]
    IN  [parts |-> <<imagePart, textPart>>]

analyzeHealthText(text) ==
    LET prompt == <<basePrompt, "Here is the medical text to analyze:", "---">>
                  \o text \o <<"---">>
        textPart == [text |-> prompt]
    IN  [parts |-> <<textPart>>]

\* ------------------------------------------------------ response payloads
NullValue == [tag |-> "null"]
Truthy(v) == v.tag = "obj"

ItemIds == {"a", "b"}
ErrItem(id) == [errorType |-> "Incorrect Dose", riskLevel |-> IF id = "a" THEN "High" ELSE "Low",
                error |-> id, explanation |-> "rationale"]
DrugItem(id) == [drugName |-> id, drugClass |-> "class", mechanismOfAction |-> "moa",
                 indication |-> "ind", prescribedDose |-> "500mg", standardDose |-> "500mg",
                 adverseEffects |-> "ae", monitoring |-> "mon", precautions |-> "prec"]
LabItem(id) == [parameter |-> id, value |-> "5.1", unit |-> "mmol/L",
                status |-> IF id = "a" THEN "High" ELSE "Normal", interpretation |-> "interp"]

ResultA == [tag |-> "obj",
            potentialErrors |-> <<ErrItem("a"), ErrItem("b")>>,
            drugInformation |-> <<DrugItem("a")>>,
            labInterpretation |-> <<>>]
ResultB == [tag |-> "obj",
            potentialErrors |-> <<>>,
            drugInformation |-> <<>>]

\* the JSON texts the model knows, one token each
JsonValue(tok) ==
    CASE tok = "{A}" -> ResultA
      [] tok = "{B}" -> ResultB
      [] tok = "null" -> NullValue

JsonTokens == {"{A}", "{B}", "null"}

\* response.text values: undefined/'' is <<>>
Bodies == { <<>>, <<" ">>, <<"junk">>, <<"{A}">>, <<"FENCE_JSON", "{B}", "FENCE">>, <<"null">> }
Throws == [threw |-> TRUE, text |-> <<>>]
Responses == {Throws} \cup {[threw |-> FALSE, text |-> b] : b \in Bodies}

RECURSIVE RemoveAll(_, _)
RemoveAll(s, tok) ==
    IF s = <<>> THEN <<>>
    ELSE IF Head(s) = tok THEN RemoveAll(Tail(s), tok)
    ELSE <<Head(s)>> \o RemoveAll(Tail(s), tok)

\* response.text with every json fence and every bare fence removed, then trimmed;
\* FENCE_JSON and FENCE are the two markdown code-fence tokens
CleanJson(text) == Trim(RemoveAll(RemoveAll(text, "FENCE_JSON"), "FENCE"))

\* JSON.parse: one JSON text, anything else is a SyntaxError
Parses(s) == Len(s) = 1 /\ s[1] \in JsonTokens

Failure == [ok |-> FALSE, value |-> NullValue]

\* performAnalysis with a catch that swallows the error and returns nothing
performAnalysisSwallow(resp) ==
    IF ~resp.threw /\ resp.text # <<>> /\ Parses(CleanJson(resp.text))
    THEN [ok |-> TRUE, value |-> JsonValue(CleanJson(resp.text)[1])]
    ELSE [ok |-> TRUE, value |-> NullValue]

\* performAnalysis after generateContent settled with response resp
performAnalysis(resp) ==
    IF resp.threw THEN Failure
    ELSE IF resp.text = <<>> THEN Failure
    ELSE LET cleanedJson == CleanJson(resp.text)
         IN  IF Parses(cleanedJson)
             THEN [ok |-> TRUE, value |-> JsonValue(cleanedJson[1])]
             ELSE Failure

\* ------------------------------------------------------------- result view
\* analysisResult.<field>?.length || 0
ArrayLength(result, field) == IF field \in DOMAIN result THEN Len(result[field]) ELSE 0

riskColorMap(riskLevel) ==
    CASE riskLevel = "High" -> "bg-red-100 text-red-800 border-red-400"
      [] riskLevel = "Moderate" -> "bg-yellow-100 text-yellow-800 border-yellow-400"
      [] riskLevel = "Low" -> "bg-blue-100 text-blue-800 border-blue-400"
      [] OTHER -> "undefined"

labStatusColorMap(status) ==
    CASE status = "High" -> "text-red-600 font-semibold"
      [] status = "Low" -> "text-blue-600 font-semibold"
      [] status = "Abnormal" -> "text-yellow-700 font-semibold"
      [] status = "Normal" -> "text-green-700"
      [] OTHER -> "text-slate-600"

Message(text) == [kind |-> "message", text |-> text, entries |-> <<>>]
Entries(es) == [kind |-> "entries", text |-> "", entries |-> es]

\* the errors tab: one card per element, key={index}
ErrorsPanel(result) ==
    IF ArrayLength(result, "potentialErrors") > 0
    THEN Entries([k \in 1..Len(result.potentialErrors) |->
            LET item == result.potentialErrors[k]
            IN  [key |-> k - 1,
                 className |-> riskColorMap(item.riskLevel),
                 fields |-> [errorType |-> item.errorType, riskLevel |-> item.riskLevel,
                             error |-> item.error, explanation |-> item.explanation]]])
    ELSE Message("No potential medication errors were identified based on the provided document.")

\* the drugs tab deciding on the errors array
DrugsPanelWrongArray(result) ==
    IF ArrayLength(result, "potentialErrors") > 0 /\ "drugInformation" \in DOMAIN result
    THEN Entries([k \in 1..Len(result.drugInformation) |->
            [key |-> k - 1, className |-> "", fields |-> result.drugInformation[k]]])
    ELSE Message("No specific drug information could be extracted from the document.")

\* the drugs tab: one card per element, showing all nine fields
DrugsPanel(result) ==
    IF ArrayLength(result, "drugInformation") > 0
    THEN Entries([k \in 1..Len(result.drugInformation) |->
            LET drug == result.drugInformation[k]
            IN  [key |-> k - 1,
                 className |-> "",
                 fields |-> [drugName |-> drug.drugName, drugClass |-> drug.drugClass,
                             indication |-> drug.indication,
                             mechanismOfAction |-> drug.mechanismOfAction,
                             prescribedDose |-> drug.prescribedDose,
                             standardDose |-> drug.standardDose,
                             monitoring |-> drug.monitoring,
                             adverseEffects |-> drug.adverseEffects,
                             precautions |-> drug.precautions]]])
    ELSE Message("No specific drug information could be extracted from the document.")

\* the labs tab: one table row per element; status only picks the colour
LabsPanel(result) ==
    IF ArrayLength(result, "labInterpretation") > 0
    THEN Entries([k \in 1..Len(result.labInterpretation) |->
            LET lab == result.labInterpretation[k]
            IN  [key |-> k - 1,
                 className |-> labStatusColorMap(lab.status),
                 fields |-> [parameter |-> lab.parameter, value |-> lab.value,
                             unit |-> lab.unit, interpretation |-> lab.interpretation]]])
    ELSE Message("No lab values were identified or interpreted from the document.")

\* the block rendered under {analysisResult && ...}: the tab bar and the active panel
ResultView(result, tab) ==
    IF ~Truthy(result) THEN [shown |-> FALSE, tabs |-> <<>>, panel |-> Message("")]
    ELSE [shown |-> TRUE,
          tabs |-> <<"errors", "drugs", "labs">>,
          panel |-> CASE tab = "errors" -> ErrorsPanel(result)
                      [] tab = "drugs" -> DrugsPanel(result)
                      [] tab = "labs" -> LabsPanel(result)]

\* ------------------------------------------------------------ UI strings
NoError == <<>>
MissingInputError == <<"Please provide input before analyzing.">>
GenericError ==
    <<"An error occurred during analysis. The input may be unclear or the format unsupported. Please try again.">>
UnsupportedError == <<"Speech recognition is not supported in your browser.">>
SpeechError(code) ==
    <<"Speech recognition error: ", code, ". Please ensure microphone access is granted.">>

\* ------------------------------------------------- speech recognition events
\* SpeechRecognitionEvent: resultIndex is 0-based, results[k] is results[k-1] in JS
Final(c) == [isFinal |-> TRUE, transcript |-> <<c>>]
Interim(c) == [isFinal |-> FALSE, transcript |-> <<c>>]
SpeechEvents ==
    { [resultIndex |-> 0, results |-> <<Interim("x")>>],
      [resultIndex |-> 0, results |-> <<Final("x")>>],
      [resultIndex |-> 0, results |-> <<Final(" ")>>],
      [resultIndex |-> 1, results |-> <<Final("x"), Interim(" ")>>],
      [resultIndex |-> 1, results |-> <<Final("x"), Final(" ")>>],
      [resultIndex |-> 0, results |-> <<Final("x"), Final(" ")>>],
      [resultIndex |-> 0, results |-> <<Interim(" "), Final("x")>>] }

RECURSIVE FinalFrom(_, _)
\* the for loop of recognition.onresult, from JS index i
FinalFrom(results, i) ==
    IF i >= Len(results) THEN <<>>
    ELSE (IF results[i + 1].isFinal THEN results[i + 1].transcript ELSE <<>>)
         \o FinalFrom(results, i + 1)

\* the loop started at 0 instead of event.resultIndex
finalTranscriptFromZero(event) == FinalFrom(event.results, 0)

finalTranscript(event) == FinalFrom(event.results, event.resultIndex)

\* ------------------------------------------------------------------- state
VARIABLES
    file,            \* useState<File | null>
    previewUrl,      \* useState<string | null>
    inputText,       \* useState<string>
    inputMode,       \* useState<InputMode>
    analysisResult,  \* useState<AnalysisResult | null>
    isLoading,       \* useState<boolean>
    error,           \* useState<string | null>
    activeTab,       \* useState<Tab>
    isRecording,     \* useState<boolean>
    recognitionRef,  \* TRUE iff recognitionRef.current was set by the effect
    listening,       \* TRUE while the browser's recognition session has not ended
    readers,         \* per file, the FileReaders of handleFileChange still loading
    inflight,        \* handleAnalyze invocations suspended at an await
    activations,     \* number of handleAnalyze invocations so far
    calls            \* number of generateContent calls issued so far

vars == <<file, previewUrl, inputText, inputMode, analysisResult, isLoading, error,
          activeTab, isRecording, recognitionRef, listening, readers, inflight,
          activations, calls>>

inputVars == <<file, previewUrl, inputText, inputMode, readers>>
speechVars == <<isRecording, recognitionRef, listening>>
requestVars == <<inflight, activations, calls>>
resultVars == <<analysisResult, error, activeTab>>

RECURSIVE SumOver(_, _)
SumOver(fn, S) ==
    IF S = {} THEN 0 ELSE LET x == CHOOSE y \in S : TRUE IN fn[x] + SumOver(fn, S \ {x})

Pending(rs) == SumOver(rs, DOMAIN rs)

RemoveAt(s, i) == SubSeq(s, 1, i - 1) \o SubSeq(s, i + 1, Len(s))

Init ==
    /\ file = NoFile
    /\ previewUrl = NoUrl
    /\ inputText = <<>>
    /\ inputMode = "upload"
    /\ analysisResult = NullValue
    /\ isLoading = FALSE
    /\ error = NoError
    /\ activeTab = "errors"
    /\ isRecording = FALSE
    /\ recognitionRef \in BOOLEAN
    /\ listening = FALSE
    /\ readers = [f \in Files |-> 0]
    /\ inflight = <<>>
    /\ activations = 0
    /\ calls = 0

\* clearAnalysis without setActiveTab('errors')
clearAnalysisKeepsTab ==
    /\ analysisResult' = NullValue
    /\ error' = NoError
    /\ UNCHANGED activeTab

\* clearAnalysis, as the conjuncts it contributes to a handler
clearAnalysis ==
    /\ analysisResult' = NullValue
    /\ error' = NoError
    /\ activeTab' = "errors"

\* isAnalyzeDisabled without the isLoading disjunct
isAnalyzeDisabledNoLoading ==
    \/ (inputMode = "upload" /\ file = NoFile)
    \/ (inputMode # "upload" /\ Trim(inputText) = <<>>)

\* isAnalyzeDisabled that asks only whether some input exists
isAnalyzeDisabledAnyInput ==
    \/ isLoading
    \/ (file = NoFile /\ Trim(inputText) = <<>>)

isAnalyzeDisabled ==
    \/ isLoading
    \/ (inputMode = "upload" /\ file = NoFile)
    \/ (inputMode # "upload" /\ Trim(inputText) = <<>>)

\* onClick of the three mode buttons
SetInputMode(m) ==
    /\ inputMode' = m
    /\ UNCHANGED <<file, previewUrl, inputText, readers>>
    /\ UNCHANGED <<resultVars, isLoading, speechVars, requestVars>>

\* the file input is rendered only in upload mode while there is no preview
handleFileChange(selectedFile) ==
    /\ inputMode = "upload"
    /\ previewUrl = NoUrl
    /\ selectedFile # NoFile
    /\ Pending(readers) < MaxReaders
    /\ file' = selectedFile
    /\ clearAnalysis
    /\ readers' = [readers EXCEPT ![selectedFile] = @ + 1]
    /\ UNCHANGED <<previewUrl, inputText, inputMode, isLoading, speechVars, requestVars>>

\* reader.onloadend of handleFileChange; reader.result is null when the read failed
ReaderLoadEnd(f, loaded) ==
    /\ readers[f] > 0
    /\ previewUrl' = IF loaded THEN DataURL(f) ELSE NoUrl
    /\ readers' = [readers EXCEPT ![f] = @ - 1]
    /\ UNCHANGED <<file, inputText, inputMode, resultVars, isLoading, speechVars, requestVars>>

\* the textarea is rendered in text and voice mode
handleTextChange(value) ==
    /\ inputMode \in {"text", "voice"}
    /\ inputText' = value
    /\ IF Truthy(analysisResult) \/ error # NoError
       THEN clearAnalysis
       ELSE UNCHANGED resultVars
    /\ UNCHANGED <<file, previewUrl, inputMode, readers, isLoading, speechVars, requestVars>>

\* the clear button is rendered only over the preview image
clearInput ==
    /\ inputMode = "upload"
    /\ previewUrl # NoUrl
    /\ file' = NoFile
    /\ previewUrl' = NoUrl
    /\ inputText' = <<>>
    /\ clearAnalysis
    /\ UNCHANGED <<inputMode, readers, isLoading, speechVars, requestVars>>

\* the tab buttons are rendered only while a result is shown
SetActiveTab(t) ==
    /\ Truthy(analysisResult)
    /\ activeTab' = t
    /\ UNCHANGED <<analysisResult, error, inputVars, isLoading, speechVars, requestVars>>

\* handleAnalyze up to its first await (or its early return)
handleAnalyze ==
    /\ activations < MaxActivations
    /\ activations' = activations + 1
    /\ analysisResult' = NullValue
    /\ activeTab' = "errors"
    /\ IF inputMode = "upload" /\ file # NoFile
       THEN /\ inflight' = Append(inflight, [stage |-> "encoding", file |-> file,
                                             contents |-> [parts |-> <<>>]])
            /\ isLoading' = TRUE
            /\ error' = NoError
            /\ calls' = calls
       ELSE IF inputMode \in {"text", "voice"} /\ Trim(inputText) # <<>>
       THEN /\ inflight' = Append(inflight, [stage |-> "calling", file |-> NoFile,
                                             contents |-> analyzeHealthText(inputText)])
            /\ isLoading' = TRUE
            /\ error' = NoError
            /\ calls' = calls + 1
       ELSE /\ error' = MissingInputError
            /\ isLoading' = FALSE
            /\ UNCHANGED <<inflight, calls>>
    /\ UNCHANGED <<inputVars, speechVars>>

\* onClick of the Run Clinical Analysis button, which is disabled={isAnalyzeDisabled}
ClickAnalyze ==
    /\ ~isAnalyzeDisabled
    /\ handleAnalyze

\* reader.onload of fileToBase64, then analyzeHealthDocument up to generateContent
EncodeDone(i) ==
    /\ i \in 1..Len(inflight)
    /\ inflight[i].stage = "encoding"
    /\ LET enc == fileToBase64(inflight[i].file)
       IN  inflight' = [inflight EXCEPT ![i] =
               [stage |-> "calling", file |-> inflight[i].file,
                contents |-> analyzeHealthDocument(enc.data, enc.mimeType)]]
    /\ calls' = calls + 1
    /\ UNCHANGED <<activations, inputVars, resultVars, isLoading, speechVars>>

\* reader.onerror of fileToBase64: the promise rejects into handleAnalyze's catch
EncodeFail(i) ==
    /\ i \in 1..Len(inflight)
    /\ inflight[i].stage = "encoding"
    /\ inflight' = RemoveAt(inflight, i)
    /\ error' = GenericError
    /\ isLoading' = FALSE
    /\ UNCHANGED <<analysisResult, activeTab, activations, calls, inputVars, speechVars>>

\* Respond with a retry: a failed call is issued again
RespondRetry(i, resp) ==
    /\ i \in 1..Len(inflight)
    /\ inflight[i].stage = "calling"
    /\ LET result == performAnalysis(resp)
       IN  IF result.ok
           THEN /\ analysisResult' = result.value
                /\ inflight' = RemoveAt(inflight, i)
                /\ isLoading' = FALSE
                /\ UNCHANGED calls
           ELSE /\ calls' = calls + 1
                /\ UNCHANGED <<analysisResult, inflight, isLoading>>
    /\ UNCHANGED <<error, activeTab, activations, inputVars, speechVars>>

\* generateContent settles with resp; the rest of performAnalysis and of handleAnalyze
Respond(i, resp) ==
    /\ i \in 1..Len(inflight)
    /\ inflight[i].stage = "calling"
    /\ inflight' = RemoveAt(inflight, i)
    /\ LET result == performAnalysis(resp)
       IN  IF result.ok
           THEN /\ analysisResult' = result.value
                /\ UNCHANGED error
           ELSE /\ error' = GenericError
                /\ UNCHANGED analysisResult
    /\ isLoading' = FALSE
    /\ UNCHANGED <<activeTab, activations, calls, inputVars, speechVars>>

\* onClick of the recording button, rendered only in voice mode
toggleRecording ==
    /\ inputMode = "voice"
    /\ IF ~recognitionRef
       THEN /\ error' = UnsupportedError
            /\ UNCHANGED <<analysisResult, activeTab, isRecording, listening>>
       ELSE IF isRecording
       THEN \* stop(): the session delivers what it has and ends later
            /\ isRecording' = FALSE
            /\ UNCHANGED <<listening, resultVars>>
       ELSE /\ IF Truthy(analysisResult) \/ error # NoError
               THEN clearAnalysis
               ELSE UNCHANGED resultVars
            \* start() on a session that has not ended throws before setIsRecording
            /\ IF ~listening
               THEN listening' = TRUE /\ isRecording' = TRUE
               ELSE UNCHANGED <<listening, isRecording>>
    /\ UNCHANGED <<recognitionRef, inputVars, isLoading, requestVars>>

\* recognition.onresult, for text buffers of at most maxLen characters
OnResultWithin(event, maxLen) ==
    /\ listening
    /\ event.resultIndex < Len(event.results)
    /\ Len(inputText) + Len(finalTranscript(event)) <= maxLen
    /\ inputText' = inputText \o finalTranscript(event)
    /\ UNCHANGED <<file, previewUrl, inputMode, readers>>
    /\ UNCHANGED <<resultVars, isLoading, speechVars, requestVars>>

\* recognition.onresult
OnResult(event) == OnResultWithin(event, MaxTextLen)

\* recognition.onerror without setIsRecording(false)
OnErrorKeepsRecording(code) ==
    /\ listening
    /\ error' = SpeechError(code)
    /\ listening' = FALSE
    /\ UNCHANGED <<isRecording, analysisResult, activeTab, recognitionRef, inputVars,
                   isLoading, requestVars>>

\* recognition.onerror; the browser ends the session after an error
OnError(code) ==
    /\ listening
    /\ error' = SpeechError(code)
    /\ isRecording' = FALSE
    /\ listening' = FALSE
    /\ UNCHANGED <<analysisResult, activeTab, recognitionRef, inputVars, isLoading, requestVars>>

\* the session ends (after stop(), or on its own); App registers no onend handler
RecognitionEnd ==
    /\ listening
    /\ listening' = FALSE
    /\ UNCHANGED <<isRecording, recognitionRef, inputVars, resultVars, isLoading, requestVars>>

UserStep ==
    \/ \E m \in Modes : SetInputMode(m)
    \/ \E f \in Files \cup {NoFile} : handleFileChange(f)
    \/ \E v \in Texts : handleTextChange(v)
    \/ clearInput
    \/ \E t \in Tabs : SetActiveTab(t)
    \/ toggleRecording

BrowserStep ==
    \/ \E f \in Files, loaded \in BOOLEAN : ReaderLoadEnd(f, loaded)
    \/ \E i \in 1..MaxInflight : EncodeDone(i)
    \/ \E i \in 1..MaxInflight : EncodeFail(i)
    \/ \E i \in 1..MaxInflight, resp \in Responses : Respond(i, resp)
    \/ \E e \in SpeechEvents : OnResult(e)
    \/ \E c \in ErrorCodes : OnError(c)
    \/ RecognitionEnd

Next == UserStep \/ BrowserStep \/ ClickAnalyze

Spec == Init /\ [][Next]_vars

\* handleAnalyze called as a function, whatever the button's disabled attribute,
\* on a component holding any mode, file and text the handlers above can produce
InitHandler ==
    /\ file \in Files \cup {NoFile}
    /\ previewUrl = IF file = NoFile THEN NoUrl ELSE DataURL(file)
    /\ inputText \in Texts
    /\ inputMode \in Modes
    /\ analysisResult = NullValue
    /\ isLoading = FALSE
    /\ error = NoError
    /\ activeTab = "errors"
    /\ isRecording = FALSE
    /\ recognitionRef = TRUE
    /\ listening = FALSE
    /\ readers = [f \in Files |-> 0]
    /\ inflight = <<>>
    /\ activations = 0
    /\ calls = 0

CallHandleAnalyze ==
    /\ Len(inflight) < MaxInflight
    /\ handleAnalyze

NextHandler ==
    \/ CallHandleAnalyze
    \/ \E i \in 1..MaxInflight : EncodeDone(i)
    \/ \E i \in 1..MaxInflight : EncodeFail(i)
    \/ \E i \in 1..MaxInflight, resp \in Responses : Respond(i, resp)

SpecHandler == InitHandler /\ [][NextHandler]_vars

\* ------------------------------------------------------------------ claims
Blank(text) == \A k \in 1..Len(text) : text[k] = " "

\* the current mode's input is missing
MissingInput ==
    \/ (inputMode = "upload" /\ file = NoFile)
    \/ (inputMode \in {"text", "voice"} /\ Blank(inputText))

\* C1: in every reachable state at most one analysis request is outstanding,
\* whatever the user does while the response is pending.
AtMostOneOutstanding == Len(inflight) <= 1

\* C1 witness: a request is pending while the current mode holds usable input,
\* so only isLoading keeps the trigger disabled
PendingWithUsableInput ==
    /\ Len(inflight) = 1
    /\ isLoading
    /\ inputMode = "text"
    /\ inputText = <<"x">>
    /\ activations < MaxActivations

\* C2: every mode switch and every input edit (file selected, text typed,
\* dictated text appended, input cleared) leaves analysisResult and error null.
InputChangeClearsResult ==
    [][(inputMode' # inputMode \/ inputText' # inputText \/ file' # file)
        => (analysisResult' = NullValue /\ error' = NoError)]_vars

\* the bodies that are a call failure: empty, blank, not JSON
FailureResponses ==
    {Throws} \cup {[threw |-> FALSE, text |-> b] : b \in {<<>>, <<" ">>, <<"junk">>}}

\* C3: a call that throws, returns an empty body or an unparsable body sets the
\* generic error, and right after it no result is visible and isLoading is false.
CallFailureYieldsGenericError ==
    [][\A i \in 1..MaxInflight, resp \in FailureResponses :
         Respond(i, resp) =>
            (error' = GenericError /\ analysisResult' = NullValue /\ isLoading' = FALSE)]_vars

\* C3 witness: the only activation issued its call and the call failed
CallFailed ==
    /\ activations = 1
    /\ calls = 1
    /\ inflight = <<>>
    /\ error = GenericError
    /\ analysisResult = NullValue
    /\ ~isLoading

\* C4: error and analysisResult are never both non-null.
NeverErrorWithResult == ~(error # NoError /\ analysisResult # NullValue)

\* C5: the trigger is disabled whenever the current mode's input is missing
\* (upload without a file, text or voice with blank text), whatever the other
\* input holds.
TriggerDisabledWithoutInput == MissingInput => isAnalyzeDisabled

\* C5 witness: nothing is pending, the text of text mode is blank, a file is selected
BlankTextWithFileSelected ==
    /\ ~isLoading
    /\ inputMode = "text"
    /\ inputText = <<" ">>
    /\ file # NoFile

\* C6: handleAnalyze run without usable input for the current mode issues no
\* request, sets the missing-input error and leaves isLoading false.
MissingInputRejectedLocally ==
    [][(activations' = activations + 1 /\ MissingInput)
        => /\ calls' = calls
           /\ inflight' = inflight
           /\ error' = MissingInputError
           /\ isLoading' = FALSE]_vars

\* C6 witness: a handler run was rejected with blank text in text mode, no call made
RejectedBlankText ==
    /\ activations = 1
    /\ calls = 0
    /\ inflight = <<>>
    /\ inputMode = "text"
    /\ inputText = <<" ">>
    /\ error = MissingInputError

ImageParts(f) ==
    << [inlineData |-> [data |-> FileBase64(f), mimeType |-> FileType(f)]],
       [text |-> <<basePrompt, "The medical information is in the attached image.">>] >>

TextParts(text) ==
    << [text |-> <<basePrompt, "Here is the medical text to analyze:", "---">>
                 \o text \o <<"---">>] >>

\* C7 as stated: whenever a file is selected the submission encodes and sends
\* it, and otherwise it sends the text only, in every state with the trigger enabled.
RequestCarriesSelectedImage ==
    [][(activations' = activations + 1 /\ Len(inflight') = Len(inflight) + 1)
        => LET new == inflight'[Len(inflight')]
           IN  IF file # NoFile
               THEN new.stage = "encoding" /\ new.file = file
               ELSE new.stage = "calling" /\ new.contents.parts = TextParts(inputText)]_vars

\* C7 (amended): the input mode decides what is sent. A submission in upload
\* mode encodes the selected file and sends its bytes and type as an image part
\* followed by the prompt part; a submission in text or voice mode sends one
\* text part holding the text buffer and no image, also when a file is selected.
RequestMatchesInput ==
    [][/\ (activations' = activations + 1 /\ Len(inflight') = Len(inflight) + 1)
          => LET new == inflight'[Len(inflight')]
             IN  IF inputMode = "upload"
                 THEN new.stage = "encoding" /\ new.file = file
                 ELSE new.stage = "calling" /\ new.contents.parts = TextParts(inputText)
       /\ \A i \in 1..Len(inflight) :
            (Len(inflight') = Len(inflight) /\ inflight[i].stage = "encoding"
                /\ inflight'[i].stage = "calling")
            => inflight'[i].contents.parts = ImageParts(inflight[i].file)]_vars

\* C7 witness: the image request is out while the text buffer holds text
ImageRequestOut ==
    /\ Len(inflight) = 1
    /\ inflight[1].stage = "calling"
    /\ inflight[1].file = "f2"
    /\ inputText = <<"x">>

\* C8: a step issues at most one call, and only as the activation of the
\* trigger or as the completed encoding of an activation that has not called
\* yet; in particular a failed call is not followed by a call of its own.
NoRetry ==
    [][calls' # calls
        => /\ calls' = calls + 1
           /\ \/ activations' = activations + 1
              \/ \E i \in 1..Len(inflight) :
                    /\ Len(inflight') = Len(inflight)
                    /\ inflight[i].stage = "encoding"
                    /\ inflight'[i].stage = "calling"]_vars

\* C8 witness: two activations, two calls, the second failed and nothing is in flight
SecondCallFailed ==
    /\ activations = 2
    /\ calls = 2
    /\ inflight = <<>>
    /\ error = GenericError

\* C9: isLoading is true exactly while a request is outstanding, and a request
\* that ends leaves isLoading false and exactly one of result and error set.
LoadingReflectsRequest ==
    [][/\ isLoading <=> (inflight # <<>>)
       /\ Len(inflight') < Len(inflight)
            => /\ isLoading' = FALSE
               /\ (analysisResult' # NullValue) # (error' # NoError)]_vars

\* ------------------------------------------------ the view as a function
ArrayChoices(elements) ==
    {[present |-> FALSE, items |-> <<>>]}
    \cup {[present |-> TRUE, items |-> arr] : arr \in SeqsUpTo(elements, MaxItems)}

Field(name, choice) == IF choice.present THEN name :> choice.items ELSE <<>>

\* every value of the declared shape with up to MaxItems elements per array,
\* and those with an array left out
RenderableResults ==
    { [tag |-> "obj"] @@ Field("potentialErrors", e) @@ Field("drugInformation", d)
                      @@ Field("labInterpretation", l) :
        e \in ArrayChoices({ErrItem(id) : id \in ItemIds}),
        d \in ArrayChoices({DrugItem(id) : id \in ItemIds}),
        l \in ArrayChoices({LabItem(id) : id \in ItemIds}) }

InitRender ==
    /\ analysisResult \in RenderableResults
    /\ activeTab = "errors"
    /\ file = NoFile
    /\ previewUrl = NoUrl
    /\ inputText = <<"x">>
    /\ inputMode = "text"
    /\ isLoading = FALSE
    /\ error = NoError
    /\ isRecording = FALSE
    /\ recognitionRef = TRUE
    /\ listening = FALSE
    /\ readers = [f \in Files |-> 0]
    /\ inflight = <<>>
    /\ activations = 1
    /\ calls = 1

NextRender == \E t \in Tabs : SetActiveTab(t)

SpecRender == InitRender /\ [][NextRender]_vars

TabField(tab) ==
    CASE tab = "errors" -> "potentialErrors"
      [] tab = "drugs" -> "drugInformation"
      [] tab = "labs" -> "labInterpretation"

NoFindings(tab) ==
    CASE tab = "errors" ->
           "No potential medication errors were identified based on the provided document."
      [] tab = "drugs" -> "No specific drug information could be extracted from the document."
      [] tab = "labs" -> "No lab values were identified or interpreted from the document."

\* C10: a displayed result has exactly the tabs errors, drugs, labs; the active
\* tab shows one entry per element of its own array, in the array's order, and
\* shows its no-findings message exactly when that array is empty or missing.
TabsMatchArrays ==
    Truthy(analysisResult) =>
        LET view == ResultView(analysisResult, activeTab)
            field == TabField(activeTab)
            arr == IF field \in DOMAIN analysisResult THEN analysisResult[field] ELSE <<>>
        IN  /\ view.shown
            /\ view.tabs = <<"errors", "drugs", "labs">>
            /\ (view.panel.kind = "message") <=> (arr = <<>>)
            /\ view.panel.kind = "message" => view.panel.text = NoFindings(activeTab)
            /\ Len(view.panel.entries) = Len(arr)
            /\ \A k \in 1..Len(arr) :
                  /\ view.panel.entries[k].key = k - 1
                  /\ \A f \in DOMAIN view.panel.entries[k].fields :
                        view.panel.entries[k].fields[f] = arr[k][f]

\* C10 witness: the drugs tab shows two drugs in order b, a while the errors
\* array is empty and the labs array is missing
DrugsTabShowsTwo ==
    /\ activeTab = "drugs"
    /\ "labInterpretation" \notin DOMAIN analysisResult
    /\ "potentialErrors" \in DOMAIN analysisResult
    /\ "drugInformation" \in DOMAIN analysisResult
    /\ analysisResult.potentialErrors = <<>>
    /\ analysisResult.drugInformation = <<DrugItem("b"), DrugItem("a")>>

\* C11: the recording button pressed without a speech-recognition object sets
\* the unsupported message and does not turn isRecording on; a recognition
\* error event sets the speech error message of its code and turns isRecording
\* off; neither message is the generic analysis error.
SpeechFailuresSurfaced ==
    [][/\ (toggleRecording /\ ~recognitionRef)
            => (error' = UnsupportedError /\ error' # GenericError
                /\ ~isRecording /\ ~isRecording')
       /\ \A code \in ErrorCodes :
            OnError(code)
            => (error' = SpeechError(code) /\ error' # GenericError /\ ~isRecording')]_vars

\* C11 witness: a recognition error arrived in a session that had been started
\* and left recording off
SpeechErrorShown ==
    /\ recognitionRef
    /\ error = SpeechError("not-allowed")
    /\ ~isRecording
    /\ ~listening

\* ------------------------------------------------- dictation on its own
\* the voice panel alone: recording button, textarea, mode buttons and the
\* recognition callbacks, with text buffers up to MaxDictationLen characters
InitSpeech ==
    /\ file = NoFile
    /\ previewUrl = NoUrl
    /\ inputText = <<>>
    /\ inputMode = "voice"
    /\ analysisResult = NullValue
    /\ isLoading = FALSE
    /\ error = NoError
    /\ activeTab = "errors"
    /\ isRecording = FALSE
    /\ recognitionRef = TRUE
    /\ listening = FALSE
    /\ readers = [f \in Files |-> 0]
    /\ inflight = <<>>
    /\ activations = 0
    /\ calls = 0

NextSpeech ==
    \/ toggleRecording
    \/ \E m \in Modes : SetInputMode(m)
    \/ \E v \in Texts : handleTextChange(v)
    \/ \E e \in SpeechEvents : OnResultWithin(e, MaxDictationLen)
    \/ \E c \in ErrorCodes : OnError(c)
    \/ RecognitionEnd

SpecSpeech == InitSpeech /\ [][NextSpeech]_vars

IsFinalSegment(r) == r.isFinal

\* the event's final segments from resultIndex (0-based) on, in order
FinalSegments(event) ==
    SelectSeq(SubSeq(event.results, event.resultIndex + 1, Len(event.results)),
              IsFinalSegment)

RECURSIVE Transcripts(_)
Transcripts(segments) ==
    IF segments = <<>> THEN <<>>
    ELSE Head(segments).transcript \o Transcripts(Tail(segments))

\* C12: on every result event the new inputText is the previous inputText
\* followed by the event's final segments from resultIndex on, in order; an
\* event without such a segment leaves inputText as it was, and the previous
\* text always remains as the prefix.
DictationAppendsFinalSegments ==
    [][\A e \in SpeechEvents :
         OnResultWithin(e, MaxDictationLen)
         => /\ inputText' = inputText \o Transcripts(FinalSegments(e))
            /\ SubSeq(inputText', 1, Len(inputText)) = inputText
            /\ (FinalSegments(e) = <<>> => inputText' = inputText)]_vars

\* C12 witness: typed text x followed by the dictated finals x and blank, in order
DictatedAfterTyped ==
    /\ inputText = <<"x", "x", " ">>
    /\ listening

\* C13: a result that becomes displayed is the response to a request made from
\* the input as it is now: the file still selected for an image request, the
\* text still in the buffer for a text request.
DisplayedResultIsForCurrentInput ==
    [][\A i \in 1..MaxInflight, resp \in Responses :
         (Respond(i, resp) /\ Truthy(analysisResult'))
         => IF inflight[i].file # NoFile
            THEN file = inflight[i].file
            ELSE inflight[i].contents = analyzeHealthText(inputText)]_vars

\* C14: whenever a preview is shown a file is selected and the preview is the
\* data URL of that file.
PreviewMatchesFile ==
    previewUrl # NoUrl => (file # NoFile /\ previewUrl = DataURL(file))

\* C15: whenever no analysis result is held the active tab is errors, so a
\* result that becomes displayed opens on the Error Analysis tab.
NoResultMeansErrorsTab ==
    [][/\ analysisResult = NullValue => activeTab = "errors"
       /\ (~Truthy(analysisResult) /\ Truthy(analysisResult')) => activeTab' = "errors"]_vars

\* C15 witness: the first request is over and a second one is pending with
\* no result held
SecondRequestPending ==
    /\ activations = 2
    /\ calls = 2
    /\ isLoading
    /\ analysisResult = NullValue
    /\ activeTab = "errors"

====
